---- MODULE Spec2Model ----
(***************************************************************************)
(* Model of the Nexus CRM agent core:                                      *)
(*   - server/index.js : the bounded event log (pushEvent), the webhook    *)
(*     receiver, the event retrieval endpoint and the Evolution gateway    *)
(*     client (evolutionTryRequest);                                       *)
(*   - the AiPage component (App.jsx, carried in README.md): the session   *)
(*     store, runAgentWorkflow and the Evolution poll effect.              *)
(***************************************************************************)
EXTENDS Integers, Sequences, FiniteSets, TLC

VARIABLES
  \* ---- server/index.js ----
  webhookToken,  \* const WEBHOOK_TOKEN                    (index.js:14)
  eventSeq,      \* let eventSeq = 0                       (index.js:16)
  events,        \* const events = []                      (index.js:17)
  handlers,      \* in-flight webhook request handlers, by connection
  lastReply,     \* last HTTP response written by a webhook handler
  lastRead,      \* last response of GET /api/evolution/events
  assigned,      \* history: the seq numbers returned by pushEvent, in order
  \* ---- evolutionTryRequest ----
  gw,            \* one dispatch call: arguments, loop position, result
  \* ---- agent helpers called on their own ----
  calc,          \* the last call of a pure helper: its arguments and result
  \* ---- AiPage (App.jsx) ----
  settings,          \* agentState.settings
  storedAutomations, \* useStoredAutomations()
  sessions,          \* agentState.sessions, every queued update applied
  sessionsRef,       \* sessionsRef.current
  storedLeads,       \* useStoredLeads(), every queued update applied
  storedLeadsRef,    \* storedLeadsRef.current
  storedTasks,       \* useStoredTasks()
  storedDeals,       \* useStoredDeals()
  messages,          \* agentState.messages (the conversation log)
  evoConfig,         \* connections.whatsapp.evolution as last rendered
  connectionsRef,    \* connectionsRef.current?.whatsapp (evolution part)
  evolutionAfterRef, \* evolutionAfterRef.current
  evolutionPollingRef, \* evolutionPollingRef.current
  loops,             \* the closures of the poll effect, one per effect run
  nextId,            \* history: how many createId() batches were drawn
  runLog             \* history: one record per runAgentWorkflow call

serverVars == <<webhookToken, eventSeq, events, handlers, lastReply, lastRead,
                assigned>>

clientVars == <<settings, storedAutomations, sessions, sessionsRef, storedLeads,
                storedLeadsRef, storedTasks, storedDeals, messages, evoConfig,
                connectionsRef, evolutionAfterRef, evolutionPollingRef, loops,
                nextId, runLog>>

vars == <<serverVars, gw, clientVars, calc>>

\* ------------------------------------------------------------------------
\* Program constants
\* ------------------------------------------------------------------------
MAX_EVENTS == 500

\* ------------------------------------------------------------------------
\* Bounds of the model
\* ------------------------------------------------------------------------
MaxHandlers == 2      \* webhook requests in flight at the same time
MaxAdmitLog == 3      \* admissions in the log specification
MaxAdmitCap == 502    \* admissions in the capacity specification
MaxPaths == 3         \* candidate paths of one dispatch call
MaxAdmit == 2         \* admissions in the client specification
MaxManual == 1        \* messages typed into the test input
MaxLoops == 2         \* runs of the poll effect that start a loop

\* rejected fetches of one poller loop
MaxFails == 2

\* leads in the list the dedup block searches
MaxLeads == 3

Min(a, b) == IF a < b THEN a ELSE b
Max(a, b) == IF a > b THEN a ELSE b

\* ------------------------------------------------------------------------
\* Strings are sequences of tokens so that trimming and digit filtering
\* are computed, not assumed.
\* ------------------------------------------------------------------------
DigitTokens == {"0", "1", "2", "3", "4", "5", "6", "7", "8", "9"}
JidSuffixes == {"@s.whatsapp.net", "@g.us"}

RECURSIVE TrimLeft(_)
TrimLeft(s) == IF s # <<>> /\ Head(s) = " " THEN TrimLeft(Tail(s)) ELSE s

RECURSIVE TrimRight(_)
TrimRight(s) ==
  IF s # <<>> /\ s[Len(s)] = " " THEN TrimRight(SubSeq(s, 1, Len(s) - 1)) ELSE s

Trim(s) == TrimRight(TrimLeft(s))

IsDigitToken(c) == c \in DigitTokens

normalizeWhatsappSender(value) ==
  LET raw == Trim(value)
      withoutJid == IF raw # <<>> /\ raw[Len(raw)] \in JidSuffixes
                    THEN SubSeq(raw, 1, Len(raw) - 1) ELSE raw
  IN  IF raw = <<>> THEN <<>> ELSE SelectSeq(withoutJid, IsDigitToken)

\* the parser without the trim of the text
parseEvolutionWebhook_untrimmedText(payload) ==
  [fromMe |-> payload.fromMe,
   sender |-> normalizeWhatsappSender(payload.remoteJid),
   text   |-> payload.text,
   pushName |-> Trim(payload.pushName)]

\* payload: [fromMe, remoteJid, text, pushName]; the nested shapes of the
\* provider payload are reduced to the one shape data.key / data.message.
parseEvolutionWebhook(payload) ==
  [fromMe |-> payload.fromMe,
   sender |-> normalizeWhatsappSender(payload.remoteJid),
   text   |-> Trim(payload.text),
   pushName |-> Trim(payload.pushName)]

\* ------------------------------------------------------------------------
\* Agent helpers (App.jsx)
\* ------------------------------------------------------------------------
Null == <<>>
NoStage == "undefined"
NumericFacts == {"bedrooms", "budget"}
EmptyDraft == [k \in {} |-> ""]

\* JS truthiness of draft?.[k]
Truthy(draft, k) ==
  /\ k \in DOMAIN draft
  /\ IF k \in NumericFacts THEN draft[k] # 0 ELSE draft[k] # ""

\* agentExtractSignals on the message bodies the model sends; each entry is
\* what the regular expressions of the function yield for that text.
SignalsOfBody(body) ==
  CASE body = "me chamo Ana" -> [name |-> "Ana"]
    [] body = "ana@x.com" -> [email |-> "ana@x.com"]
    [] body = "quero comprar por 500 mil" -> [intent |-> "buy", budget |-> 500000]
    [] body = "me chamo Ana, quero comprar um apartamento em Pinheiros, por 500 mil" ->
         [name |-> "Ana", intent |-> "buy", propertyType |-> "Apartamento",
          location |-> "Pinheiros", budget |-> 500000]
    [] body = "apartamento 0 quartos" -> [propertyType |-> "Apartamento", bedrooms |-> 0]
    [] body = "2 quartos" -> [bedrooms |-> 2]
    [] OTHER -> EmptyDraft

agentExtractSignals(text) ==
  LET source == Trim(text)
  IN  IF source = <<>> THEN EmptyDraft ELSE SignalsOfBody(source[1])

\* a signal value that agentMergeDraft skips: a blank string (undefined and
\* null are absent keys here)
BlankSignal(signals, k) == k \notin NumericFacts /\ signals[k] \in {"", " "}

\* agentMergeDraft writing every key of the signal
agentMergeDraft_blankWins(prevDraft, signals) ==
  [k \in (DOMAIN prevDraft) \cup (DOMAIN signals) |->
     IF k \in DOMAIN signals THEN signals[k] ELSE prevDraft[k]]

agentMergeDraft(prevDraft, signals) ==
  LET written == {k \in DOMAIN signals : ~BlankSignal(signals, k)}
  IN  [k \in (DOMAIN prevDraft) \cup written |->
         IF k \in written THEN signals[k] ELSE prevDraft[k]]

\* agentComputeLeadScore without Math.min(100, ...)
agentComputeLeadScore_noCap(draft) ==
  25 + (IF Truthy(draft, "name") THEN 10 ELSE 0)
     + (IF Truthy(draft, "email") THEN 15 ELSE 0)
     + (IF Truthy(draft, "phone") THEN 15 ELSE 0)
     + (IF Truthy(draft, "intent") THEN 5 ELSE 0)
     + (IF Truthy(draft, "propertyType") THEN 10 ELSE 0)
     + (IF Truthy(draft, "location") THEN 10 ELSE 0)
     + (IF Truthy(draft, "bedrooms") THEN 5 ELSE 0)
     + (IF Truthy(draft, "budget") THEN 15 ELSE 0)

agentComputeLeadScore(draft) ==
  LET base == 25
      points == (IF Truthy(draft, "name") THEN 10 ELSE 0)
              + (IF Truthy(draft, "email") THEN 15 ELSE 0)
              + (IF Truthy(draft, "phone") THEN 15 ELSE 0)
              + (IF Truthy(draft, "intent") THEN 5 ELSE 0)
              + (IF Truthy(draft, "propertyType") THEN 10 ELSE 0)
              + (IF Truthy(draft, "location") THEN 10 ELSE 0)
              + (IF Truthy(draft, "bedrooms") THEN 5 ELSE 0)
              + (IF Truthy(draft, "budget") THEN 15 ELSE 0)
  IN  Min(100, base + points)

StageRank(stageId) ==
  CASE stageId = "new" -> 0
    [] stageId = "contacted" -> 1
    [] stageId = "qualified" -> 2
    [] stageId = "proposal" -> 3
    [] stageId = "negotiation" -> 4
    [] stageId = "won" -> 5
    [] OTHER -> 0

\* agentPickNextStageId returning the desired stage whatever the current one
agentPickNextStageId_desiredOnly(prevStageId, draft) ==
  IF /\ Truthy(draft, "intent")
     /\ Truthy(draft, "budget")
     /\ (Truthy(draft, "location") \/ Truthy(draft, "propertyType"))
  THEN "qualified" ELSE "contacted"

agentPickNextStageId(prevStageId, draft) ==
  LET currentRank == StageRank(prevStageId)
      desired == IF /\ Truthy(draft, "intent")
                    /\ Truthy(draft, "budget")
                    /\ (Truthy(draft, "location") \/ Truthy(draft, "propertyType"))
                 THEN "qualified" ELSE "contacted"
      desiredRank == StageRank(desired)
  IN  IF desiredRank > currentRank THEN desired
      ELSE IF prevStageId = NoStage THEN desired ELSE prevStageId

\* Array.prototype.find: the first element of list whose test (hits[i], the
\* callback's result on list[i]) is true, or Null
FindFirst(list, hits) ==
  IF \E i \in 1..Len(list) : hits[i]
  THEN list[CHOOSE i \in 1..Len(list) : hits[i] /\ \A j \in 1..(i - 1) : ~hits[j]]
  ELSE Null

\* String.prototype.toLowerCase / replace(/\D/g, '') on the values the model
\* stores in leads and drafts
LowerCase(str) ==
  CASE str = "Ana@X.com" -> "ana@x.com"
    [] str = "ANA@X.COM" -> "ana@x.com"
    [] OTHER -> str

DigitsOnly(str) ==
  CASE str = "(11) 91234-5678" -> "11912345678"
    [] str = "11 91234-5678" -> "11912345678"
    [] str = "sem telefone" -> ""
    [] OTHER -> str

\* ------------------------------------------------------------------------
\* runAgentWorkflow
\* ------------------------------------------------------------------------
Channels == {"whatsapp", "instagram"}

ChannelLabel(channelId) == IF channelId = "whatsapp" THEN "WhatsApp" ELSE "Instagram"

DefaultSession == [leadId |-> Null, draft |-> EmptyDraft, dealId |-> Null,
                   peer |-> Null, flags |-> [automationsTriggered |-> FALSE]]

DraftValue(draft, k) == IF k \in DOMAIN draft THEN draft[k] ELSE ""

\* stageSeed (App.jsx: channelSession.leadId ? find(...)?.stageId : 'new')
StageSeed(channelSession, leadList) ==
  IF channelSession.leadId # Null
  THEN LET linked == FindFirst(leadList, [i \in 1..Len(leadList) |->
                                              leadList[i].id = channelSession.leadId])
       IN  IF linked = Null THEN NoStage ELSE linked.stageId
  ELSE "new"

\* the dedup block without the session link
ResolveLeadId_ignoreSession(channelSession, nextDraft, leadList) ==
  LET byEmail ==
        IF Truthy(nextDraft, "email")
        THEN FindFirst(leadList,
               [i \in 1..Len(leadList) |->
                  LowerCase(leadList[i].email) = LowerCase(nextDraft.email)])
        ELSE Null
      byPhone ==
        IF byEmail = Null /\ Truthy(nextDraft, "phone")
        THEN FindFirst(leadList,
               [i \in 1..Len(leadList) |->
                  /\ DigitsOnly(leadList[i].phone) # ""
                  /\ DigitsOnly(leadList[i].phone) = DigitsOnly(nextDraft.phone)])
        ELSE Null
  IN  IF byEmail # Null THEN byEmail.id
      ELSE IF byPhone # Null THEN byPhone.id ELSE Null

\* the dedup block with the phone looked up before the e-mail
ResolveLeadId_phoneFirst(channelSession, nextDraft, leadList) ==
  LET byPhone ==
        IF channelSession.leadId = Null /\ Truthy(nextDraft, "phone")
        THEN FindFirst(leadList,
               [i \in 1..Len(leadList) |->
                  /\ DigitsOnly(leadList[i].phone) # ""
                  /\ DigitsOnly(leadList[i].phone) = DigitsOnly(nextDraft.phone)])
        ELSE Null
      afterPhone == IF channelSession.leadId # Null THEN channelSession.leadId
                    ELSE IF byPhone # Null THEN byPhone.id ELSE Null
      byEmail ==
        IF afterPhone = Null /\ Truthy(nextDraft, "email")
        THEN FindFirst(leadList,
               [i \in 1..Len(leadList) |->
                  LowerCase(leadList[i].email) = LowerCase(nextDraft.email)])
        ELSE Null
  IN  IF afterPhone # Null THEN afterPhone
      ELSE IF byEmail # Null THEN byEmail.id ELSE Null

\* the dedup block: session link, then e-mail, then phone; Null when new
ResolveLeadId(channelSession, nextDraft, leadList) ==
  LET byEmail ==
        IF channelSession.leadId = Null /\ Truthy(nextDraft, "email")
        THEN FindFirst(leadList,
               [i \in 1..Len(leadList) |->
                  LowerCase(leadList[i].email) = LowerCase(nextDraft.email)])
        ELSE Null
      afterEmail == IF channelSession.leadId # Null THEN channelSession.leadId
                    ELSE IF byEmail # Null THEN byEmail.id ELSE Null
      byPhone ==
        IF afterEmail = Null /\ Truthy(nextDraft, "phone")
        THEN FindFirst(leadList,
               [i \in 1..Len(leadList) |->
                  /\ DigitsOnly(leadList[i].phone) # ""
                  /\ DigitsOnly(leadList[i].phone) = DigitsOnly(nextDraft.phone)])
        ELSE Null
  IN  IF afterEmail # Null THEN afterEmail
      ELSE IF byPhone # Null THEN byPhone.id ELSE Null

EligibleForDeal(leadId, cfg, nextDealId, nextDraft) ==
  /\ leadId # Null
  /\ cfg.autoCreateDeal
  /\ nextDealId = Null
  /\ Truthy(nextDraft, "intent")
  /\ "budget" \in DOMAIN nextDraft
  /\ nextDraft.budget > 0

ActiveAutomations(cfg, automationList) ==
  IF cfg.triggerMarketingAutomations
  THEN SelectSeq(automationList,
         LAMBDA automation : automation.active /\ automation.trigger = "new_lead")
  ELSE <<>>

RECURSIVE AutomationTasks(_, _, _)
AutomationTasks(activeAutomations, related, idBase) ==
  IF activeAutomations = <<>> THEN <<>>
  ELSE LET automation == Head(activeAutomations)
           tasks == [index \in 1..Len(automation.steps) |->
                       [id |-> <<"t", idBase, automation.name, index>>,
                        title |-> <<"Automacao", automation.name, index>>,
                        type |-> IF automation.steps[index].channel = "email"
                                 THEN "email" ELSE "follow_up",
                        dueLabel |-> <<Max(0, automation.steps[index].waitMinutes)>>,
                        related |-> related]]
       IN  tasks \o AutomationTasks(Tail(activeAutomations), related, idBase)

\* leadName (App.jsx: nextDraft.name?.trim() ? ... : fallbackName)
LeadName(channelId, author, nextDraft) ==
  IF Truthy(nextDraft, "name") THEN <<nextDraft.name>>
  ELSE IF author # <<>> /\ author # <<"Voce">> THEN author
  ELSE <<"Lead", ChannelLabel(channelId)>>

LeadPayload(channelId, leadName, channelSession, storedLeadList, nextDraft) ==
  [name |-> leadName,
   email |-> DraftValue(nextDraft, "email"),
   phone |-> DraftValue(nextDraft, "phone"),
   origin |-> channelId,
   score |-> agentComputeLeadScore(nextDraft),
   stageId |-> agentPickNextStageId(StageSeed(channelSession, storedLeadList), nextDraft),
   value |-> IF Truthy(nextDraft, "budget") THEN nextDraft.budget ELSE 0]

\* runAgentWorkflow from `const eventMessages = []` on: the branches that
\* create or update records, and the session patch
WorkflowBranches(peer, channelSession, currentSettings, idBase, nextDraft, leadName, leadPayload, resolved, activeAutomations) ==
  LET createdLead == resolved = Null /\ currentSettings.autoCreateLead
      leadId == IF createdLead THEN <<"k", idBase>> ELSE resolved
      createdTasks == createdLead /\ leadId # Null /\ currentSettings.autoCreateTask
      createdDeal == EligibleForDeal(leadId, currentSettings, channelSession.dealId,
                                     nextDraft)
      nextDealId == IF createdDeal THEN <<"d", idBase>> ELSE channelSession.dealId
      automationTasks ==
        IF /\ createdLead
           /\ leadId # Null
           /\ activeAutomations # <<>>
           /\ ~channelSession.flags.automationsTriggered
        THEN AutomationTasks(activeAutomations, leadName, idBase)
        ELSE <<>>
      triggeredAutomations == automationTasks # <<>>
  IN  [nextDraft |-> nextDraft,
       resolved |-> resolved,
       leadId |-> leadId,
       leadPayload |-> leadPayload,
       createdLead |-> createdLead,
       updatedLead |-> ~createdLead /\ leadId # Null,
       createdTasks |-> createdTasks,
       followTask |-> [id |-> <<"t", idBase>>, title |-> <<"Follow-up", leadName>>,
                       type |-> "follow_up", dueLabel |-> <<"Hoje">>,
                       related |-> leadName],
       createdDeal |-> createdDeal,
       newDeal |-> [id |-> <<"d", idBase>>, company |-> leadName,
                    stageId |-> "discovery",
                    amount |-> IF "budget" \in DOMAIN nextDraft
                               THEN nextDraft.budget ELSE 0],
       nextDealId |-> nextDealId,
       automationTasks |-> automationTasks,
       triggeredAutomations |-> triggeredAutomations,
       sessionPatch |->
         [leadId |-> leadId,
          draft |-> nextDraft,
          dealId |-> nextDealId,
          peer |-> IF peer # Null THEN peer ELSE channelSession.peer,
          flags |-> [automationsTriggered |->
                       channelSession.flags.automationsTriggered
                         \/ triggeredAutomations]]]

\* runAgentWorkflow from the merged draft on: lead name, payload, dedup
WorkflowFromDraft(channelId, author, peer, channelSession, storedLeadList, storedAutomationList, currentSettings, idBase, nextDraft) ==
  WorkflowBranches(peer, channelSession, currentSettings, idBase, nextDraft,
    LeadName(channelId, author, nextDraft),
    LeadPayload(channelId, LeadName(channelId, author, nextDraft), channelSession,
                storedLeadList, nextDraft),
    ResolveLeadId(channelSession, nextDraft, storedLeadList),
    ActiveAutomations(currentSettings, storedAutomationList))

\* Everything runAgentWorkflow computes from what it reads, before it
\* issues its state updates.
WorkflowResult(channelId, text, author, peer, channelSession, storedLeadList, storedAutomationList, currentSettings, idBase) ==
  WorkflowFromDraft(channelId, author, peer, channelSession, storedLeadList,
    storedAutomationList, currentSettings, idBase,
    agentMergeDraft(channelSession.draft, agentExtractSignals(text)))

\* ------------------------------------------------------------------------
\* Event log
\* ------------------------------------------------------------------------
\* pushEvent(event): the pair <<eventSeq', events'>>
pushEventSeq_reset(seqNow) == IF seqNow >= MAX_EVENTS THEN 1 ELSE seqNow + 1

pushEventSeq(seqNow) == seqNow + 1

pushEventLog_keepOldest(log, seqNow, event) ==
  LET appended == Append(log, [seq |-> pushEventSeq(seqNow)] @@ event)
  IN  IF Len(appended) > MAX_EVENTS THEN SubSeq(appended, 1, MAX_EVENTS) ELSE appended

pushEventLog(log, seqNow, event) ==
  LET next == [seq |-> pushEventSeq(seqNow)] @@ event
      appended == Append(log, next)
  IN  IF Len(appended) > MAX_EVENTS
      THEN SubSeq(appended, Len(appended) - MAX_EVENTS + 1, Len(appended))
      ELSE appended

\* the check with the query parameter alone
requireWebhookToken_queryOnly(secret, tokenFromQuery, tokenFromHeader) ==
  IF secret = <<>> THEN TRUE
  ELSE Trim(tokenFromQuery) = secret

requireWebhookToken(secret, tokenFromQuery, tokenFromHeader) ==
  IF secret = <<>> THEN TRUE
  ELSE Trim(tokenFromQuery) = secret \/ Trim(tokenFromHeader) = secret

\* ------------------------------------------------------------------------
\* Gateway client (evolutionTryRequest)
\* ------------------------------------------------------------------------
normalizeBaseUrl(baseUrl) ==
  LET trimmed == Trim(baseUrl)
  IN  IF trimmed = <<>> THEN <<>>
      ELSE IF trimmed[Len(trimmed)] = "/" THEN SubSeq(trimmed, 1, Len(trimmed) - 1)
      ELSE trimmed

buildAuthHeaders(apiKey) ==
  LET token == Trim(apiKey)
  IN  IF token = <<>> THEN [apikey |-> <<>>, authorization |-> <<>>]
      ELSE [apikey |-> token, authorization |-> <<"Bearer ">> \o token]

\* `${normalized}${candidate.startsWith('/') ? candidate : `/${candidate}`}`
CandidateUrl(normalized, candidate) ==
  normalized \o (IF candidate # <<>> /\ Head(candidate) = "/"
                 THEN candidate ELSE <<"/">> \o candidate)

\* What one fetch of a candidate can end in: an HTTP status, a rejected
\* promise (network failure), or no answer at all.
NetworkError == 0
NoAnswer == -2
Statuses == {200, 404, 500}
Responses == Statuses \cup {NetworkError, NoAnswer}

ResOk(status) == status >= 200 /\ status <= 299

GwFailure(status, candidate) == [ok |-> FALSE, status |-> status, path |-> candidate]
GwSuccess(status, candidate) == [ok |-> TRUE, status |-> status, path |-> candidate]
GwNoPath == <<"-">>

\* the loop `for (const candidate of paths)` from position i on: either the
\* next fetch is issued or the loop is over and lastError is returned
GwAdvance(call, i, lastError) ==
  IF i <= Len(call.paths)
  THEN [call EXCEPT !.pc = "fetching", !.i = i, !.lastError = lastError,
         !.requested = Append(call.requested,
            [url |-> CandidateUrl(call.normalized, call.paths[i]),
             headers |-> buildAuthHeaders(call.apiKey)])]
  ELSE [call EXCEPT !.pc = "done", !.lastError = lastError,
         !.result = IF lastError.status # -9 THEN lastError
                    ELSE GwFailure(500, GwNoPath)]

GwNoError == [ok |-> FALSE, status |-> -9, path |-> GwNoPath]

\* what the loop body does with the answer to candidate i
GwOnAnswer_stopOn404(call, answer) ==
  LET candidate == call.paths[call.i]
  IN  IF answer = NetworkError
      THEN GwAdvance(call, call.i + 1, GwFailure(0, candidate))
      ELSE IF ResOk(answer)
      THEN [call EXCEPT !.pc = "done", !.result = GwSuccess(answer, candidate)]
      ELSE [call EXCEPT !.pc = "done", !.lastError = GwFailure(answer, candidate),
                        !.result = GwFailure(answer, candidate)]

GwOnAnswer(call, answer) ==
  LET candidate == call.paths[call.i]
  IN  IF answer = NetworkError
      THEN GwAdvance(call, call.i + 1, GwFailure(0, candidate))
      ELSE IF ResOk(answer)
      THEN [call EXCEPT !.pc = "done", !.result = GwSuccess(answer, candidate)]
      ELSE IF answer # 404
      THEN [call EXCEPT !.pc = "done", !.lastError = GwFailure(answer, candidate),
                        !.result = GwFailure(answer, candidate)]
      ELSE GwAdvance(call, call.i + 1, GwFailure(answer, candidate))

\* GET /api/evolution/events?after=N : the response body
readAfter_inclusive(log, seqNow, after) ==
  [events |-> SelectSeq(log, LAMBDA event : event.seq >= after),
   nextAfter |-> seqNow]

\* the response without the first event after the cursor
readAfter_skipOne(log, seqNow, after) ==
  [events |-> SelectSeq(log, LAMBDA event : event.seq > after + 1),
   nextAfter |-> seqNow]

readAfter(log, seqNow, after) ==
  [events |-> SelectSeq(log, LAMBDA event : event.seq > after),
   nextAfter |-> seqNow]

NoRead == [cursor |-> -1, admits |-> -1, events |-> <<>>, nextAfter |-> -1]
NoReply == [status |-> 0, ignored |-> FALSE, reason |-> "none", payload |-> <<>>]
IdleHandler == [pc |-> "idle", payload |-> <<>>]

Secret == <<"s", "3">>

\* Request tokens as they arrive (untrimmed)
Tokens == {<<>>, <<" ", "s", "3">>, <<"x">>}

\* Raw payload fields
Payload(fromMe, remoteJid, text, pushName) ==
  [fromMe |-> fromMe, remoteJid |-> remoteJid, text |-> text, pushName |-> pushName]

Payloads ==
  {Payload(FALSE, <<"7", "1", "@s.whatsapp.net">>, <<"meu nome e Ana">>, <<"Ana">>),
   Payload(FALSE, <<"7", "2", "@s.whatsapp.net">>, <<" ", "ana@x.com", " ">>, <<>>),
   Payload(TRUE, <<"7", "1", "@s.whatsapp.net">>, <<"ana@x.com">>, <<>>),
   Payload(FALSE, <<"7", "1", "@s.whatsapp.net">>, <<" ">>, <<>>),
   Payload(FALSE, <<"g", "@g.us">>, <<"ana@x.com">>, <<>>),
   Payload(TRUE, <<>>, <<>>, <<>>)}

\* The one payload of the capacity specification
CapPayloads == {[fromMe |-> f, remoteJid |-> <<"7", "1", "@s.whatsapp.net">>,
                 text |-> <<"ana@x.com">>, pushName |-> <<>>] : f \in BOOLEAN}

Requests(payloadSet, tokenSet) ==
  [tokenFromQuery : tokenSet, tokenFromHeader : tokenSet, payload : payloadSet]

\* POST /api/evolution/webhook up to `await readJson(req)`
WebhookReceive(h, req) ==
  /\ handlers[h].pc = "idle"
  /\ IF ~requireWebhookToken(webhookToken, req.tokenFromQuery, req.tokenFromHeader)
     THEN /\ lastReply' = [status |-> 401, ignored |-> FALSE, reason |-> "token",
                           payload |-> req.payload]
          /\ UNCHANGED handlers
     ELSE /\ handlers' = [handlers EXCEPT ![h] =
                            [pc |-> "reading", payload |-> req.payload]]
          /\ UNCHANGED lastReply
  /\ UNCHANGED <<webhookToken, eventSeq, events, lastRead, assigned, gw, calc, clientVars>>

\* POST /api/evolution/webhook after the body was read: the ignore checks,
\* pushEvent and the response
Admission(payload, maxAdmit) ==
  LET parsed == parseEvolutionWebhook(payload)
  IN  IF parsed.text = <<>> \/ parsed.sender = <<>>
      THEN /\ lastReply' = [status |-> 200, ignored |-> TRUE, reason |-> "none",
                            payload |-> payload]
           /\ UNCHANGED <<eventSeq, events, assigned>>
      ELSE IF parsed.fromMe
      THEN /\ lastReply' = [status |-> 200, ignored |-> TRUE, reason |-> "fromMe",
                            payload |-> payload]
           /\ UNCHANGED <<eventSeq, events, assigned>>
      ELSE /\ Len(assigned) < maxAdmit
           /\ eventSeq' = pushEventSeq(eventSeq)
           /\ events' = pushEventLog(events, eventSeq,
                [type |-> "whatsapp_message", channel |-> "whatsapp",
                 sender |-> parsed.sender, author |-> parsed.pushName,
                 text |-> parsed.text])
           /\ assigned' = Append(assigned, pushEventSeq(eventSeq))
           /\ lastReply' = [status |-> 200, ignored |-> FALSE, reason |-> "none",
                            payload |-> payload]

WebhookHandle(h, maxAdmit) ==
  /\ handlers[h].pc = "reading"
  /\ Admission(handlers[h].payload, maxAdmit)
  /\ handlers' = [handlers EXCEPT ![h] = IdleHandler]
  /\ UNCHANGED <<webhookToken, lastRead, gw, calc, clientVars>>

\* a webhook request handled from start to end with no other step of the
\* model in between
WebhookDeliver(req, maxAdmit) ==
  /\ \A h \in 1..MaxHandlers : handlers[h].pc = "idle"
  /\ requireWebhookToken(webhookToken, req.tokenFromQuery, req.tokenFromHeader)
  /\ Admission(req.payload, maxAdmit)
  /\ UNCHANGED <<webhookToken, handlers, lastRead, gw, calc, clientVars>>

\* GET /api/evolution/events?after=N
GetEvents(after) ==
  /\ lastRead' = [cursor |-> after, admits |-> Len(assigned)]
                   @@ readAfter(events, eventSeq, after)
  /\ UNCHANGED <<webhookToken, eventSeq, events, handlers, lastReply, assigned, gw, calc, clientVars>>

HandlerIds == 1..MaxHandlers

NoCalc == [op |-> "none"]

GwIdle == [pc |-> "idle", baseUrl |-> <<>>, apiKey |-> <<>>, normalized |-> <<>>,
           paths |-> <<>>, answers |-> <<>>, i |-> 0, lastError |-> GwNoError,
           requested |-> <<>>, result |-> GwNoError]

ClientIdle ==
  /\ settings = [autoCreateLead |-> TRUE, autoCreateTask |-> TRUE,
                 autoCreateDeal |-> TRUE, triggerMarketingAutomations |-> TRUE]
  /\ storedAutomations = <<>>
  /\ sessions = [c \in {"whatsapp", "instagram"} |-> <<>>]
  /\ sessionsRef = sessions
  /\ storedLeads = <<>>
  /\ storedLeadsRef = <<>>
  /\ storedTasks = <<>>
  /\ storedDeals = <<>>
  /\ messages = <<>>
  /\ evoConfig = "none"
  /\ connectionsRef = "none"
  /\ evolutionAfterRef = 0
  /\ evolutionPollingRef = FALSE
  /\ loops = [l \in 1..MaxLoops |-> [pc |-> "unused"]]
  /\ nextId = 1
  /\ runLog = <<>>

ServerInit(secrets) ==
  /\ webhookToken \in secrets
  /\ eventSeq = 0
  /\ events = <<>>
  /\ handlers = [h \in HandlerIds |-> IdleHandler]
  /\ lastReply = NoReply
  /\ lastRead = NoRead
  /\ assigned = <<>>

\* ---- the log under varied payloads and tokens -------------------------
InitLog == ServerInit({<<>>, Secret}) /\ gw = GwIdle /\ calc = NoCalc /\ ClientIdle

NextLog ==
  \/ \E h \in HandlerIds, req \in Requests(Payloads, Tokens) : WebhookReceive(h, req)
  \/ \E h \in HandlerIds : WebhookHandle(h, MaxAdmitLog)
  \/ \E after \in 0..MaxAdmitLog : GetEvents(after)

SpecLog == InitLog /\ [][NextLog]_vars

\* ---- the token check of the webhook ------------------------------------
\* POST /api/evolution/webhook from its token check to its response with no
\* other step of the model in between; calc keeps the call of
\* requireWebhookToken
WebhookChecked(req, maxAdmit) ==
  /\ \A h \in 1..MaxHandlers : handlers[h].pc = "idle"
  /\ calc' = [op |-> "token", query |-> req.tokenFromQuery,
               header |-> req.tokenFromHeader,
               result |-> requireWebhookToken(webhookToken, req.tokenFromQuery,
                                              req.tokenFromHeader)]
  /\ IF ~requireWebhookToken(webhookToken, req.tokenFromQuery, req.tokenFromHeader)
     THEN /\ lastReply' = [status |-> 401, ignored |-> FALSE, reason |-> "token",
                           payload |-> req.payload]
          /\ UNCHANGED <<eventSeq, events, assigned>>
     ELSE Admission(req.payload, maxAdmit)
  /\ UNCHANGED <<webhookToken, handlers, lastRead, gw, clientVars>>

InitToken == ServerInit({<<>>, Secret}) /\ gw = GwIdle /\ calc = NoCalc /\ ClientIdle

NextToken ==
  \/ \E req \in Requests(Payloads, Tokens) : WebhookChecked(req, MaxAdmit)
  \/ \E after \in 0..MaxAdmit : GetEvents(after)

SpecToken == InitToken /\ [][NextToken]_vars

\* ---- the log driven past its capacity ---------------------------------
InitCap == ServerInit({<<>>}) /\ gw = GwIdle /\ calc = NoCalc /\ ClientIdle

NextCap ==
  \/ \E h \in HandlerIds, req \in Requests(CapPayloads, {<<>>}) : WebhookReceive(h, req)
  \/ \E h \in HandlerIds : WebhookHandle(h, MaxAdmitCap)
  \/ \E after \in {0, 2} : Len(assigned) >= MAX_EVENTS /\ GetEvents(after)

SpecCap == InitCap /\ [][NextCap]_vars

\* ---- one gateway dispatch call at a time -------------------------------
BaseUrls == {<<>>, <<" ">>, <<"http://evo">>, <<"http://evo", "/", " ">>}
ApiKeys == {<<>>, <<"key">>}

CandidateAt(i) == IF i % 2 = 1 THEN <<"/", "p", i>> ELSE <<"p", i>>

CandidateLists == {[i \in 1..n |-> CandidateAt(i)] : n \in 0..MaxPaths}

\* evolutionTryRequest({ baseUrl, apiKey, method, paths, body }) up to its
\* first await; `answers` fixes what the remote end will answer to each
\* candidate of this call.
GwCall(baseUrl, apiKey, paths, answers) ==
  /\ gw.pc = "idle"
  /\ LET call == [GwIdle EXCEPT !.baseUrl = baseUrl, !.apiKey = apiKey,
                     !.normalized = normalizeBaseUrl(baseUrl),
                     !.paths = paths, !.answers = answers]
     IN  gw' = IF call.normalized = <<>>
               THEN [call EXCEPT !.pc = "done", !.result = GwFailure(400, GwNoPath)]
               ELSE GwAdvance(call, 1, GwNoError)
  /\ UNCHANGED <<serverVars, clientVars, calc>>

\* the pending fetch settles
GwAnswer ==
  /\ gw.pc = "fetching"
  /\ gw.answers[gw.i] # NoAnswer
  /\ gw' = GwOnAnswer(gw, gw.answers[gw.i])
  /\ UNCHANGED <<serverVars, clientVars, calc>>

\* the caller has taken the result; the client keeps nothing between calls
GwReturn ==
  /\ gw.pc = "done"
  /\ gw' = GwIdle
  /\ UNCHANGED <<serverVars, clientVars, calc>>

InitGateway == ServerInit({<<>>}) /\ gw = GwIdle /\ calc = NoCalc /\ ClientIdle

NextGateway ==
  \/ \E baseUrl \in BaseUrls, apiKey \in ApiKeys, paths \in CandidateLists :
       \E answers \in [1..Len(paths) -> Responses] :
         GwCall(baseUrl, apiKey, paths, answers)
  \/ GwAnswer
  \/ GwReturn

SpecGateway == InitGateway /\ [][NextGateway]_vars

\* the same with the event loop's scheduling: a fetch that was answered
\* settles and its continuation runs, a finished call returns to its caller.
\* Nothing makes a fetch settle that the remote end never answers.
SpecGatewayFair ==
  InitGateway /\ [][NextGateway]_vars /\ WF_vars(GwAnswer) /\ WF_vars(GwReturn)

\* ------------------------------------------------------------------------
\* The agent helpers called on their own
\* ------------------------------------------------------------------------
Stages == <<"new", "contacted", "qualified", "proposal", "negotiation", "won">>

\* what a stored stage can be: one of the six stages or absent
StageInputs == {Stages[i] : i \in 1..Len(Stages)} \cup {NoStage}

Facts == {"name", "email", "phone", "intent", "propertyType", "location",
          "bedrooms", "budget"}

\* the values a fact takes in the drafts of the model
FactValues(k) ==
  CASE k = "name" -> {"", "Ana"}
    [] k = "email" -> {"ana@x.com"}
    [] k = "phone" -> {"(11) 91234-5678"}
    [] k = "intent" -> {"buy"}
    [] k = "propertyType" -> {"Apartamento"}
    [] k = "location" -> {"Pinheiros"}
    [] k = "bedrooms" -> {0, 2}
    [] k = "budget" -> {500000}

\* the values a key takes in the signals of the model
SignalValues(k) ==
  CASE k = "name" -> {"", " ", "Bia"}
    [] k = "email" -> {"bia@x.com"}
    [] k = "intent" -> {"rent"}
    [] k = "bedrooms" -> {0, 3}

SignalKeys == {"name", "email", "intent", "bedrooms"}

\* every record over a subset of keys, values[k] being the values of key k
RecordsOver(keys, values) ==
  UNION {{f \in [ks -> UNION {values[k] : k \in ks}] :
             \A k \in ks : f[k] \in values[k]} : ks \in SUBSET keys}

\* records holding text and records holding numbers are built apart and joined
RecordsOfFacts(keys, values) ==
  {texts @@ numbers : texts \in RecordsOver(keys \ NumericFacts, values),
                      numbers \in RecordsOver(keys \cap NumericFacts, values)}

Drafts == RecordsOfFacts(Facts, [k \in Facts |-> FactValues(k)])

Signals == RecordsOfFacts(SignalKeys, [k \in SignalKeys |-> SignalValues(k)])

\* agentPickNextStageId(prevStageId, draft)
PickStage ==
  /\ calc = NoCalc
  /\ \E prevStageId \in StageInputs, draft \in Drafts :
       calc' = [op |-> "stage", prevStageId |-> prevStageId, draft |-> draft,
                result |-> agentPickNextStageId(prevStageId, draft)]
  /\ UNCHANGED <<serverVars, gw, clientVars>>

\* agentComputeLeadScore on a draft and on the draft with fact k set to v
ComputeScore ==
  /\ calc = NoCalc
  /\ \E draft \in Drafts, k \in Facts :
       \E v \in FactValues(k) :
         calc' = [op |-> "score", draft |-> draft, fact |-> k, value |-> v,
                  result |-> agentComputeLeadScore(draft),
                  resultWith |-> agentComputeLeadScore(
                                   [f \in (DOMAIN draft) \cup {k} |->
                                      IF f = k THEN v ELSE draft[f]])]
  /\ UNCHANGED <<serverVars, gw, clientVars>>

\* agentMergeDraft(prevDraft, signals); prevDraft is only spread into a new
\* object, so the caller's draft is the same after the call
MergeDraft ==
  /\ calc = NoCalc
  /\ \E prevDraft \in Drafts, signals \in Signals :
       calc' = [op |-> "merge", prevDraft |-> prevDraft, signals |-> signals,
                prevDraftAfter |-> prevDraft,
                result |-> agentMergeDraft(prevDraft, signals)]
  /\ UNCHANGED <<serverVars, gw, clientVars>>

\* the leads the dedup block searches: e-mails in other case, phones in
\* other punctuation, a phone without a digit, a lead without either
KnownLeads ==
  {[id |-> <<"k", 1>>, email |-> "Ana@X.com", phone |-> ""],
   [id |-> <<"k", 2>>, email |-> "", phone |-> "(11) 91234-5678"],
   [id |-> <<"k", 3>>, email |-> "ANA@X.COM", phone |-> "sem telefone"],
   [id |-> <<"k", 4>>, email |-> "bia@x.com", phone |-> "11 91234-5678"]}

KnownLeadLists == UNION {[1..n -> KnownLeads] : n \in 0..MaxLeads}

\* the e-mail and phone a draft can hold for the dedup block
ContactDrafts ==
  {email @@ phone :
     email \in {EmptyDraft} \cup {[email |-> e] : e \in {"ana@x.com", "bia@x.com"}},
     phone \in {EmptyDraft} \cup {[phone |-> t] : t \in {"(11) 91234-5678", "sem telefone"}}}

\* the dedup block of runAgentWorkflow on a session's leadId, a draft and a
\* lead list
ResolveLead ==
  /\ calc = NoCalc
  /\ \E leadId \in {Null, <<"k", 2>>, <<"k", 9>>}, draft \in ContactDrafts,
        leadList \in KnownLeadLists :
       calc' = [op |-> "resolve", leadId |-> leadId, draft |-> draft,
                leadList |-> leadList,
                result |-> ResolveLeadId([DefaultSession EXCEPT !.leadId = leadId],
                                         draft, leadList)]
  /\ UNCHANGED <<serverVars, gw, clientVars>>

\* the caller has taken the result; the helpers keep nothing between calls
CalcReturn ==
  /\ calc # NoCalc
  /\ calc' = NoCalc
  /\ UNCHANGED <<serverVars, gw, clientVars>>

InitAgent == ServerInit({<<>>}) /\ gw = GwIdle /\ calc = NoCalc /\ ClientIdle

NextAgent ==
  \/ PickStage
  \/ ComputeScore
  \/ MergeDraft
  \/ ResolveLead
  \/ CalcReturn

SpecAgent == InitAgent /\ [][NextAgent]_vars

\* ------------------------------------------------------------------------
\* AiPage: state updates of runAgentWorkflow, the ref effects, the poller
\* ------------------------------------------------------------------------
LoopIds == 1..MaxLoops

UnusedLoop == [pc |-> "unused", cancelled |-> FALSE, warned |-> FALSE, after |-> 0,
               batch |-> <<>>, idx |-> 0, nextAfter |-> 0, fails |-> 0]

EvoConfigs == {"none", "evoA", "evoB"}

EventMessage(channelId, text) == [role |-> "event", channel |-> channelId, text |-> text]

\* runAgentWorkflow up to (not including) its `await sendWhatsAppEvolution`:
\* reads the refs, issues the functional state updates.
RunAgentWorkflow(channelId, text, author, peer, source, seq, log) ==
  \E r \in {WorkflowResult(channelId, text, author, peer, sessionsRef[channelId],
                            storedLeadsRef, storedAutomations, settings, nextId)} :
      /\ storedLeads' =
           IF r.createdLead THEN <<[id |-> r.leadId] @@ r.leadPayload>> \o storedLeads
           ELSE IF r.updatedLead
           THEN [i \in 1..Len(storedLeads) |->
                   IF storedLeads[i].id = r.leadId
                   THEN [id |-> storedLeads[i].id] @@ r.leadPayload
                   ELSE storedLeads[i]]
           ELSE storedLeads
      /\ storedTasks' = r.automationTasks
                          \o (IF r.createdTasks THEN <<r.followTask>> ELSE <<>>)
                          \o storedTasks
      /\ storedDeals' = IF r.createdDeal THEN <<r.newDeal>> \o storedDeals
                        ELSE storedDeals
      /\ sessions' = [sessions EXCEPT ![channelId] = r.sessionPatch]
      /\ messages' = log
           \o <<[role |-> "user", channel |-> channelId, text |-> source],
                [role |-> "agent", channel |-> channelId, text |-> "reply"]>>
           \o (IF r.createdLead THEN <<EventMessage(channelId, "Lead criado")>>
               ELSE IF r.updatedLead THEN <<EventMessage(channelId, "Lead atualizado")>>
               ELSE <<>>)
           \o (IF r.createdTasks THEN <<EventMessage(channelId, "Tarefa criada")>>
               ELSE <<>>)
           \o (IF r.createdDeal THEN <<EventMessage(channelId, "Negocio criado")>>
               ELSE <<>>)
           \o (IF r.triggeredAutomations
               THEN <<EventMessage(channelId, "Automacoes iniciadas")>> ELSE <<>>)
      /\ nextId' = nextId + 1
      /\ runLog' = Append(runLog,
           [channel |-> channelId, peer |-> peer, source |-> source, seq |-> seq,
            stale |-> sessionsRef[channelId] # sessions[channelId],
            read |-> sessionsRef[channelId],
            createdLead |-> r.createdLead, updatedLead |-> r.updatedLead,
            resolved |-> r.resolved, leadId |-> r.leadId,
            createdTasks |-> r.createdTasks, createdDeal |-> r.createdDeal,
            dealId |-> r.nextDealId,
            automationTasks |-> Len(r.automationTasks),
            active |-> Len(ActiveAutomations(settings, storedAutomations)),
            draft |-> r.nextDraft])

\* the useEffect hooks that copy the rendered state into the refs
SyncRefs ==
  /\ sessionsRef' = sessions
  /\ storedLeadsRef' = storedLeads
  /\ connectionsRef' = evoConfig

Render ==
  /\ <<sessionsRef, storedLeadsRef, connectionsRef>> # <<sessions, storedLeads, evoConfig>>
  /\ SyncRefs
  /\ UNCHANGED <<serverVars, gw, calc, settings, storedAutomations, sessions, storedLeads,
                 storedTasks, storedDeals, messages, evoConfig, evolutionAfterRef,
                 evolutionPollingRef, loops, nextId, runLog>>

ManualRuns == Len(SelectSeq(runLog, LAMBDA run : run.source = "test"))

\* handleSend: a submit event; React flushes the updates of a discrete event
\* and their effects before the event is over.
HandleSend(channel, text) ==
  /\ ManualRuns < MaxManual
  /\ Trim(text) # <<>>
  /\ RunAgentWorkflow(channel, text, <<"Lead (teste)">>, Null, "test", 0, messages)
  /\ sessionsRef' = sessions'
  /\ storedLeadsRef' = storedLeads'
  /\ connectionsRef' = evoConfig
  /\ UNCHANGED <<serverVars, gw, calc, settings, storedAutomations, evoConfig,
                 evolutionAfterRef, evolutionPollingRef, loops>>

\* The connect dialog saves other credentials (or none): the poll effect's
\* cleanup runs, then the effect body.
ConfigChange(cfg) ==
  /\ cfg # evoConfig
  /\ evoConfig' = cfg
  /\ LET cleaned == [l \in LoopIds |->
                       IF loops[l].pc # "unused" /\ ~loops[l].cancelled
                       THEN [loops[l] EXCEPT !.cancelled = TRUE] ELSE loops[l]]
         hadCleanup == \E l \in LoopIds : loops[l].pc # "unused" /\ ~loops[l].cancelled
         polling == IF hadCleanup THEN FALSE ELSE evolutionPollingRef
     IN  IF cfg = "none"
         THEN /\ evolutionAfterRef' = 0
              /\ evolutionPollingRef' = FALSE
              /\ loops' = cleaned
         ELSE IF polling
         THEN /\ loops' = cleaned
              /\ UNCHANGED <<evolutionAfterRef, evolutionPollingRef>>
         ELSE /\ \E l \in LoopIds : loops[l].pc = "unused"
              /\ LET l == CHOOSE l \in LoopIds :
                            loops[l].pc = "unused"
                            /\ \A k \in LoopIds : loops[k].pc = "unused" => l <= k
                 IN  loops' = [cleaned EXCEPT ![l] =
                                 [UnusedLoop EXCEPT !.pc = "fetching", !.after = 0]]
              /\ evolutionPollingRef' = TRUE
              /\ evolutionAfterRef' = 0
  /\ sessionsRef' = sessions
  /\ storedLeadsRef' = storedLeads
  /\ connectionsRef' = cfg
  /\ UNCHANGED <<serverVars, gw, calc, settings, storedAutomations, sessions, storedLeads,
                 storedTasks, storedDeals, messages, nextId, runLog>>

\* end of poll(): `if (!cancelled) setTimeout(poll, 2000)`
AfterPoll(loop) ==
  [loop EXCEPT !.pc = IF loop.cancelled THEN "stopped" ELSE "timer",
               !.batch = <<>>, !.idx = 0, !.nextAfter = 0]

\* the timer fires: poll() up to its fetch
PollTimer(l) ==
  /\ loops[l].pc = "timer"
  /\ loops' = [loops EXCEPT ![l] =
       IF loops[l].cancelled THEN [loops[l] EXCEPT !.pc = "stopped"]
       ELSE [loops[l] EXCEPT !.pc = "fetching", !.after = evolutionAfterRef]]
  /\ UNCHANGED <<serverVars, gw, calc, settings, storedAutomations, sessions, sessionsRef,
                 storedLeads, storedLeadsRef, storedTasks, storedDeals, messages,
                 evoConfig, connectionsRef, evolutionAfterRef, evolutionPollingRef,
                 nextId, runLog>>

\* the batch loop with the reply sent before the workflow has run
LoopContinue_sendFirst(l, loop, idx, log) ==
  IF idx <= Len(loop.batch)
  THEN /\ evolutionAfterRef' = Max(evolutionAfterRef, loop.batch[idx].seq)
       /\ loops' = [loops EXCEPT ![l] = [loop EXCEPT !.idx = idx, !.pc = "sending"]]
       /\ messages' = log
       /\ UNCHANGED <<sessions, storedLeads, storedTasks, storedDeals, nextId, runLog>>
  ELSE /\ evolutionAfterRef' = Max(evolutionAfterRef, loop.nextAfter)
       /\ loops' = [loops EXCEPT ![l] = AfterPoll(loop)]
       /\ messages' = log
       /\ UNCHANGED <<sessions, storedLeads, storedTasks, storedDeals, nextId, runLog>>

\* The rest of poll() from item idx of the batch on, as far as it runs
\* without waiting: the item's cursor update and runAgentWorkflow up to its
\* send, or, past the last item, the nextAfter catch-up and the rescheduling.
\* `log` is the conversation log as this task found it.
LoopContinue(l, loop, idx, log) ==
  IF idx <= Len(loop.batch)
  THEN LET item == loop.batch[idx]
           author == IF item.author # <<>> THEN item.author ELSE item.sender
       IN  /\ evolutionAfterRef' = Max(evolutionAfterRef, item.seq)
           /\ RunAgentWorkflow("whatsapp", item.text, author, item.sender,
                                "evolution", item.seq, log)
           /\ loops' = [loops EXCEPT ![l] =
                [loop EXCEPT !.idx = idx,
                             !.pc = IF connectionsRef # "none"
                                    THEN "sending" ELSE "running"]]
  ELSE /\ evolutionAfterRef' = Max(evolutionAfterRef, loop.nextAfter)
       /\ loops' = [loops EXCEPT ![l] = AfterPoll(loop)]
       /\ messages' = log
       /\ UNCHANGED <<sessions, storedLeads, storedTasks, storedDeals, nextId, runLog>>

\* the response of GET /api/evolution/events?after=N arrives
PollReceive(l) ==
  /\ loops[l].pc = "fetching"
  /\ LET data == readAfter(events, eventSeq, loops[l].after)
     IN  LoopContinue(l, [loops[l] EXCEPT !.batch = data.events,
                                          !.nextAfter = data.nextAfter],
                      1, messages)
  /\ UNCHANGED <<serverVars, gw, calc, settings, storedAutomations, sessionsRef,
                 storedLeadsRef, evoConfig, connectionsRef, evolutionPollingRef>>

Warning == EventMessage("whatsapp", "Evolution polling indisponivel")

\* the catch block without the `warned` test
PollFail_warnEachTime(l) ==
  /\ loops[l].pc = "fetching"
  /\ loops[l].fails < MaxFails
  /\ loops' = [loops EXCEPT ![l] =
       AfterPoll([loops[l] EXCEPT !.warned = TRUE, !.fails = @ + 1])]
  /\ messages' = Append(messages, Warning)
  /\ UNCHANGED <<serverVars, gw, calc, settings, storedAutomations, sessions, sessionsRef,
                 storedLeads, storedLeadsRef, storedTasks, storedDeals,
                 evoConfig, connectionsRef, evolutionAfterRef, evolutionPollingRef,
                 nextId, runLog>>

\* the fetch of the poll is rejected: the catch block, then the rescheduling;
\* fails counts the rejected fetches of the loop
PollFail(l) ==
  /\ loops[l].pc = "fetching"
  /\ loops[l].fails < MaxFails
  /\ loops' = [loops EXCEPT ![l] =
       AfterPoll([loops[l] EXCEPT !.warned = TRUE, !.fails = @ + 1])]
  /\ messages' = IF loops[l].warned THEN messages ELSE Append(messages, Warning)
  /\ UNCHANGED <<serverVars, gw, calc, settings, storedAutomations, sessions, sessionsRef,
                 storedLeads, storedLeadsRef, storedTasks, storedDeals,
                 evoConfig, connectionsRef, evolutionAfterRef, evolutionPollingRef,
                 nextId, runLog>>

\* the event the catch block of sendWhatsAppEvolution appends
SendFailure == EventMessage("whatsapp", "Falha ao enviar")

\* the send of the reply settles; runAgentWorkflow returns to the loop
SendDone(l, ok) ==
  /\ loops[l].pc = "sending"
  /\ LoopContinue(l, loops[l], loops[l].idx + 1,
                   IF ok THEN messages
                   ELSE Append(messages, SendFailure))
  /\ UNCHANGED <<serverVars, gw, calc, settings, storedAutomations, sessionsRef,
                 storedLeadsRef, evoConfig, connectionsRef, evolutionPollingRef>>

\* sendWhatsAppEvolution returned { skipped: true } without a request; the
\* loop goes on
SendSkipped(l) ==
  /\ loops[l].pc = "running"
  /\ LoopContinue(l, loops[l], loops[l].idx + 1, messages)
  /\ UNCHANGED <<serverVars, gw, calc, settings, storedAutomations, sessionsRef,
                 storedLeadsRef, evoConfig, connectionsRef, evolutionPollingRef>>

\* ---- the client with the log it polls ---------------------------------
AllSettings == [autoCreateLead : BOOLEAN, autoCreateTask : BOOLEAN,
                autoCreateDeal : BOOLEAN, triggerMarketingAutomations : BOOLEAN]

\* the default settings, and the settings with one or all options switched off
Settings ==
  {cfg \in AllSettings :
     Cardinality({k \in DOMAIN cfg : ~cfg[k]}) \in {0, 1, 4}}

Step(channel, waitMinutes) == [channel |-> channel, waitMinutes |-> waitMinutes]

Welcome == [name |-> "Boas-vindas", active |-> TRUE, trigger |-> "new_lead",
            steps |-> <<Step("whatsapp", 0), Step("email", 60)>>]
Paused == [name |-> "Pausada", active |-> FALSE, trigger |-> "new_lead",
           steps |-> <<Step("whatsapp", 5)>>]
OnDealWon == [name |-> "Ganho", active |-> TRUE, trigger |-> "deal_won",
              steps |-> <<Step("email", 0)>>]

Automations == <<Paused, Welcome, OnDealWon>>

ExistingLead == [id |-> <<"k", 0>>, name |-> <<"Ana Souza">>, email |-> "Ana@X.com",
                 phone |-> "(11) 91234-5678", origin |-> "whatsapp", score |-> 40,
                 stageId |-> "proposal", value |-> 0]

LeadLists == {<<>>, <<ExistingLead>>}

Peer1 == <<"7", "1", "@s.whatsapp.net">>
Peer2 == <<"7", "2", "@s.whatsapp.net">>

ClientPayloads ==
  {Payload(FALSE, Peer1, <<"me chamo Ana">>, <<"Ana">>),
   Payload(FALSE, Peer1, <<"quero comprar por 500 mil">>, <<>>),
   Payload(FALSE, Peer2, <<"ana@x.com">>, <<>>)}

ManualTexts == {<<" ", "ana@x.com">>}

AllEnabled == [autoCreateLead |-> TRUE, autoCreateTask |-> TRUE,
               autoCreateDeal |-> TRUE, triggerMarketingAutomations |-> TRUE]

AllDisabled == [autoCreateLead |-> FALSE, autoCreateTask |-> FALSE,
                autoCreateDeal |-> FALSE, triggerMarketingAutomations |-> FALSE]

ClientInit(settingsSet, leadLists) ==
  /\ settings \in settingsSet
  /\ storedAutomations = Automations
  /\ sessions = [c \in Channels |-> DefaultSession]
  /\ sessionsRef = sessions
  /\ storedLeads \in leadLists
  /\ storedLeadsRef = storedLeads
  /\ storedTasks = <<>>
  /\ storedDeals = <<>>
  /\ messages = <<>>
  /\ nextId = 1
  /\ runLog = <<>>

\* The page is mounted with stored Evolution credentials: the poll effect has
\* run once and its first fetch is in flight.
Init ==
  /\ ServerInit({<<>>})
  /\ gw = GwIdle /\ calc = NoCalc
  /\ ClientInit(Settings, LeadLists)
  /\ storedLeads # <<>> =>
       settings \in {AllEnabled, [AllEnabled EXCEPT !.autoCreateLead = FALSE],
                     AllDisabled}
  /\ evoConfig = "evoA"
  /\ connectionsRef = "evoA"
  /\ evolutionAfterRef = 0
  /\ evolutionPollingRef = TRUE
  /\ loops = [l \in LoopIds |->
                IF l = 1 THEN [UnusedLoop EXCEPT !.pc = "fetching"] ELSE UnusedLoop]

Next ==
  \/ \E req \in Requests(ClientPayloads, {<<>>}) : WebhookDeliver(req, MaxAdmit)
  \/ \E channel \in Channels, text \in ManualTexts : HandleSend(channel, text)
  \/ Render
  \/ \E l \in LoopIds : PollTimer(l)
  \/ \E l \in LoopIds : PollReceive(l)
  \/ \E l \in LoopIds, ok \in BOOLEAN : SendDone(l, ok)

Spec == Init /\ [][Next]_vars

\* ---- the poller while it keeps running ---------------------------------
\* default settings, no stored lead, nothing typed into the test input
InitFair ==
  /\ Init
  /\ settings = AllEnabled
  /\ storedLeads = <<>>

NextFair ==
  \/ \E req \in Requests(ClientPayloads, {<<>>}) : WebhookDeliver(req, MaxAdmit)
  \/ Render
  \/ \E l \in LoopIds : PollTimer(l)
  \/ \E l \in LoopIds : PollReceive(l)
  \/ \E l \in LoopIds, ok \in BOOLEAN : SendDone(l, ok)

\* a timer that was set fires, the poll request is answered, the send of a
\* reply settles
SpecFair ==
  /\ InitFair
  /\ [][NextFair]_vars
  /\ WF_vars(\E l \in LoopIds : PollTimer(l))
  /\ WF_vars(\E l \in LoopIds : PollReceive(l))
  /\ WF_vars(\E l \in LoopIds, ok \in BOOLEAN : SendDone(l, ok))

\* ---- the poller with the credentials being changed --------------------
InitPoller ==
  /\ ServerInit({<<>>})
  /\ gw = GwIdle /\ calc = NoCalc
  /\ ClientInit({AllEnabled}, {<<>>})
  /\ evoConfig = "none"
  /\ connectionsRef = "none"
  /\ evolutionAfterRef = 0
  /\ evolutionPollingRef = FALSE
  /\ loops = [l \in LoopIds |-> UnusedLoop]

PollerPayloads == {Payload(FALSE, Peer1, <<"ana@x.com">>, <<>>)}

NextPoller ==
  \/ \E req \in Requests(PollerPayloads, {<<>>}) : WebhookDeliver(req, MaxAdmit)
  \/ Render
  \/ \E cfg \in EvoConfigs : ConfigChange(cfg)
  \/ \E l \in LoopIds : PollTimer(l)
  \/ \E l \in LoopIds : PollReceive(l)
  \/ \E l \in LoopIds : PollFail(l)
  \/ \E l \in LoopIds : SendDone(l, TRUE)
  \/ \E l \in LoopIds : SendSkipped(l)

SpecPoller == InitPoller /\ [][NextPoller]_vars

\* ------------------------------------------------------------------------
\* Properties of the orchestrator (over runLog, the record of its runs)
\* ------------------------------------------------------------------------
RunsOf(channelId) == SelectSeq(runLog, LAMBDA run : run.channel = channelId)

\* runs i < j of the same channel and the same peer
SameSession(i, j) ==
  /\ i < j
  /\ runLog[i].channel = runLog[j].channel
  /\ runLog[i].peer = runLog[j].peer

\* every run on the channel read the session as the run before it left it
InTurn(channelId) == \A i \in 1..Len(RunsOf(channelId)) : ~RunsOf(channelId)[i].stale

C1_AnyOrder ==
  \A i \in DOMAIN runLog, j \in DOMAIN runLog :
    (SameSession(i, j) /\ runLog[i].createdLead) => ~runLog[j].createdLead

\* C2: automation tasks are generated at most once per session: only by a
\* run that created the lead, read flags.automationsTriggered as false and
\* found active 'new_lead' automations; after that the session's flag is
\* true in every state and no later run of the session generates any.
C2_AutomationsOnce ==
  /\ \A i \in DOMAIN runLog :
        runLog[i].automationTasks > 0 =>
          /\ runLog[i].createdLead
          /\ ~runLog[i].read.flags.automationsTriggered
          /\ runLog[i].active > 0
  /\ \A i \in DOMAIN runLog, j \in DOMAIN runLog :
        (SameSession(i, j) /\ runLog[i].automationTasks > 0) =>
          runLog[j].automationTasks = 0
  /\ \A i \in DOMAIN runLog :
        runLog[i].automationTasks > 0 =>
          sessions[runLog[i].channel].flags.automationsTriggered

\* C7: each (channel, peer) pair has its own session: the first message of
\* a peer on a channel finds a fresh session, whatever other peers sent on
\* that channel before.
C7_SessionPerPeer ==
  \A j \in DOMAIN runLog :
    (/\ runLog[j].peer # Null
     /\ \A i \in 1..(j - 1) : ~SameSession(i, j)) =>
       runLog[j].read = DefaultSession

\* C8: a deal is created at most once per session, only by a run with deal
\* creation enabled, the session's dealId unset, an intent and a budget
\* above 0 in the merged draft; every later run of the session keeps that
\* dealId and creates no deal.
C8_DealOnce ==
  /\ \A i \in DOMAIN runLog :
        runLog[i].createdDeal =>
          /\ settings.autoCreateDeal
          /\ runLog[i].read.dealId = Null
          /\ Truthy(runLog[i].draft, "intent")
          /\ "budget" \in DOMAIN runLog[i].draft
          /\ runLog[i].draft.budget > 0
  /\ \A i \in DOMAIN runLog, j \in DOMAIN runLog :
        (SameSession(i, j) /\ runLog[i].createdDeal) =>
          /\ ~runLog[j].createdDeal
          /\ runLog[j].dealId = runLog[i].dealId

\* C9: the follow-up task is created by exactly the runs that create the
\* lead while task creation is enabled, and a session gets at most one.
C9_FollowUpOnce ==
  /\ \A i \in DOMAIN runLog :
        runLog[i].createdTasks <=> (runLog[i].createdLead /\ settings.autoCreateTask)
  /\ \A i \in DOMAIN runLog, j \in DOMAIN runLog :
        (SameSession(i, j) /\ runLog[i].createdTasks) => ~runLog[j].createdTasks

\* the runs on a channel that created a lead
LeadCreations(channelId) == SelectSeq(RunsOf(channelId), LAMBDA run : run.createdLead)

\* C20: a session's read-modify-write is one unit: of two runs on one
\* session the second reads the session as the first wrote it, so at most
\* one lead is created and the draft the second run writes holds the facts
\* of both messages.
C20_NoLostUpdate ==
  \A c \in Channels :
    LET runs == RunsOf(c)
    IN  /\ \A j \in 1..Len(runs) : ~runs[j].stale
        /\ Len(LeadCreations(c)) <= 1
        /\ \A i \in 1..Len(runs), j \in 1..Len(runs) :
              i < j => DOMAIN runs[i].draft \subseteq DOMAIN runs[j].draft
        /\ \A i \in 1..Len(runs) :
              DOMAIN runs[i].draft \subseteq DOMAIN sessions[c].draft

\* C22: with record creation disabled in the settings, a run still writes
\* the merged draft to the session but no record: no lead is created or
\* updated, no task and no deal is created.
C22_DisabledWritesNothing ==
  \A i \in DOMAIN runLog :
    ~(settings.autoCreateLead \/ settings.autoCreateTask \/ settings.autoCreateDeal) =>
       /\ DOMAIN runLog[i].read.draft \subseteq DOMAIN runLog[i].draft
       /\ ~runLog[i].createdLead
       /\ ~runLog[i].updatedLead
       /\ ~runLog[i].createdTasks
       /\ ~runLog[i].createdDeal
       /\ runLog[i].automationTasks = 0

\* runs i < j are two runs of one session in a row: no run of that session
\* lies between them
NextOfSession(i, j) ==
  /\ SameSession(i, j)
  /\ \A k \in (i + 1)..(j - 1) : ~SameSession(i, k)

\* C23: a run for one (channel, peer) session leaves every other session as
\* it was: whatever runs for other sessions happen in between, a session's
\* next run finds the draft, leadId and dealId that its last run wrote
\* (runs that read the refs before they were refreshed are left aside).
C23_OtherSessionsUntouched ==
  \A i \in DOMAIN runLog, j \in DOMAIN runLog :
    (NextOfSession(i, j) /\ ~runLog[j].stale) =>
       /\ runLog[j].read.draft = runLog[i].draft
       /\ runLog[j].read.leadId = runLog[i].leadId
       /\ runLog[j].read.dealId = runLog[i].dealId

\* ------------------------------------------------------------------------
\* Properties of the agent helpers
\* ------------------------------------------------------------------------
\* position of a stage in the order new < contacted < ... < won
StagePosition(stageId) == CHOOSE i \in 1..Len(Stages) : Stages[i] = stageId

\* the stage a draft asks for
DesiredStage(draft) ==
  IF /\ Truthy(draft, "intent")
     /\ Truthy(draft, "budget")
     /\ (Truthy(draft, "location") \/ Truthy(draft, "propertyType"))
  THEN "qualified" ELSE "contacted"

\* C13: nextStage(currentStage, draft) is the later of currentStage and the
\* desired stage (qualified iff intent, budget and location or propertyType,
\* else contacted), the desired stage when currentStage is absent, and so
\* never earlier than currentStage.
C13_NextStageIsMax ==
  calc.op = "stage" =>
    IF calc.prevStageId = NoStage
    THEN calc.result = DesiredStage(calc.draft)
    ELSE /\ calc.result \in {calc.prevStageId, DesiredStage(calc.draft)}
         /\ StagePosition(calc.result) >= StagePosition(calc.prevStageId)
         /\ StagePosition(calc.result) >= StagePosition(DesiredStage(calc.draft))

\* a lead in proposal with a draft that asks for qualified stays in proposal
C13_Witness ==
  /\ calc.op = "stage"
  /\ calc.prevStageId = "proposal"
  /\ DesiredStage(calc.draft) = "qualified"
  /\ calc.result = "proposal"

\* C14: the score lies between 25 and 100, and setting one more fact in a
\* draft never lowers it.
C14_ScoreMonotone ==
  calc.op = "score" =>
    /\ calc.result \in 25..100
    /\ calc.resultWith \in 25..100
    /\ calc.fact \notin DOMAIN calc.draft => calc.resultWith >= calc.result

\* a draft whose weights add up to more than 100 gets one more fact
C14_Witness ==
  /\ calc.op = "score"
  /\ calc.fact = "intent"
  /\ calc.fact \notin DOMAIN calc.draft
  /\ \A k \in Facts \ {"intent"} : Truthy(calc.draft, k)
  /\ calc.result = 100
  /\ calc.resultWith = 100

\* a signal value that counts as empty: a blank string
EmptyValue(signals, k) == k \notin NumericFacts /\ signals[k] \in {"", " "}

\* C15: merge(draft, signal) overwrites exactly the fields for which the
\* signal has a non-empty value and leaves every other field as it was;
\* merging the empty signal returns the draft; the input draft is not
\* modified.
C15_MergeFrame ==
  calc.op = "merge" =>
    /\ DOMAIN calc.result =
         (DOMAIN calc.prevDraft)
           \cup {k \in DOMAIN calc.signals : ~EmptyValue(calc.signals, k)}
    /\ \A k \in DOMAIN calc.result :
         IF k \in DOMAIN calc.signals /\ ~EmptyValue(calc.signals, k)
         THEN calc.result[k] = calc.signals[k]
         ELSE calc.result[k] = calc.prevDraft[k]
    /\ DOMAIN calc.signals = {} => calc.result = calc.prevDraft
    /\ calc.prevDraftAfter = calc.prevDraft

\* a blank name in the signal keeps the name, a new e-mail replaces the old
C15_Witness ==
  /\ calc.op = "merge"
  /\ DOMAIN calc.signals = {"name", "email"}
  /\ calc.signals.name = " "
  /\ calc.signals.email = "bia@x.com"
  /\ DOMAIN calc.prevDraft = {"name", "email", "budget"}
  /\ calc.prevDraft.name = "Ana"
  /\ calc.result = [name |-> "Ana", email |-> "bia@x.com", budget |-> 500000]

\* C30: within a session the score never drops from one message to the
\* next: the score of the draft merged with the signals of a message is at
\* least the score of the draft before it.
C30_ScoreNeverDrops ==
  calc.op = "merge" =>
    agentComputeLeadScore(calc.result) >= agentComputeLeadScore(calc.prevDraft)

\* lead i of the list has the draft's e-mail, ignoring case
EmailMatch(leadList, draft, i) ==
  /\ "email" \in DOMAIN draft
  /\ LowerCase(leadList[i].email) = LowerCase(draft.email)

\* lead i of the list has the draft's phone, digits only, and it has digits
PhoneMatch(leadList, draft, i) ==
  /\ "phone" \in DOMAIN draft
  /\ DigitsOnly(leadList[i].phone) # ""
  /\ DigitsOnly(leadList[i].phone) = DigitsOnly(draft.phone)

\* C21: identity resolution takes the session's leadId when set; otherwise
\* the first lead with the draft's e-mail ignoring case; otherwise the first
\* lead with the draft's phone reduced to digits (non-empty); otherwise the
\* draft is new. A phone match is never used when an e-mail match exists.
C21_ResolutionPriority ==
  calc.op = "resolve" =>
    LET list == calc.leadList
        emails == {i \in 1..Len(list) : EmailMatch(list, calc.draft, i)}
        phones == {i \in 1..Len(list) : PhoneMatch(list, calc.draft, i)}
    IN  IF calc.leadId # Null THEN calc.result = calc.leadId
        ELSE IF emails # {}
        THEN \E i \in emails : /\ calc.result = list[i].id
                                /\ \A j \in emails : i <= j
        ELSE IF phones # {}
        THEN \E i \in phones : /\ calc.result = list[i].id
                                /\ \A j \in phones : i <= j
        ELSE calc.result = Null

\* the phone matches the first lead of the list and the e-mail the second:
\* the second is chosen
C21_Witness ==
  /\ calc.op = "resolve"
  /\ calc.leadId = Null
  /\ Len(calc.leadList) = 3
  /\ PhoneMatch(calc.leadList, calc.draft, 1)
  /\ ~EmailMatch(calc.leadList, calc.draft, 1)
  /\ EmailMatch(calc.leadList, calc.draft, 2)
  /\ EmailMatch(calc.leadList, calc.draft, 3)
  /\ calc.result = calc.leadList[2].id

\* C28: a run never moves a lead to an earlier stage: whenever a stored lead
\* is rewritten, through the session's leadId or through a match by e-mail
\* or phone, its new stage is not earlier than the stage it had.
C28_StageNeverRegresses ==
  [][\A i \in DOMAIN storedLeads, j \in DOMAIN storedLeads' :
       storedLeads'[j].id = storedLeads[i].id =>
         StagePosition(storedLeads'[j].stageId) >= StagePosition(storedLeads[i].stageId)]_vars

\* ------------------------------------------------------------------------
\* Properties of the poller
\* ------------------------------------------------------------------------
\* C3: every admitted event is handed to the orchestrator at most once,
\* also when the poller is stopped and started again while the event is
\* still in the log.
C3_EachEventHandedOnce ==
  \A i \in DOMAIN runLog, j \in DOMAIN runLog :
    (i # j /\ runLog[i].source = "evolution" /\ runLog[j].source = "evolution") =>
      runLog[i].seq # runLog[j].seq

\* a poller loop that was started and not cancelled
Live(loop) == loop.pc \notin {"unused", "stopped"} /\ ~loop.cancelled

\* loop l ends a poll whose response arrived: with the response itself when
\* it carries no event, or when runAgentWorkflow returns for the last event
PollSucceeds(l) ==
  /\ \/ PollReceive(l)
     \/ SendDone(l, TRUE)
     \/ SendSkipped(l)
  /\ loops'[l].pc \in {"timer", "stopped"}

\* the nextAfter of the response that loop l is working on
ReturnedCursor(l) ==
  IF loops[l].pc = "fetching"
  THEN readAfter(events, eventSeq, loops[l].after).nextAfter
  ELSE loops[l].nextAfter

\* loop l calls runAgentWorkflow for item idx of its batch
Invokes(l, idx) ==
  /\ Len(runLog') = Len(runLog) + 1
  /\ runLog'[Len(runLog')].source = "evolution"
  /\ loops'[l] # loops[l]
  /\ loops'[l].idx = idx
  /\ loops'[l].pc \in {"sending", "running"}

\* C16: within one poller loop the cursor starts at 0 and never decreases,
\* after each successful poll it equals the nextAfter of that poll's
\* response (also when the response has no events), and runAgentWorkflow is
\* called with autoReply (its reply goes to the send) for the events of the
\* response in increasing seq order, one at a time, each call after the
\* call before it has returned.
C16_CursorFollowsPoll ==
  [][\A l \in LoopIds :
       /\ (loops[l].pc = "unused" /\ loops'[l].pc # "unused") =>
             evolutionAfterRef' = 0 /\ loops'[l].after = 0
       /\ (Live(loops[l]) /\ Live(loops'[l])) =>
             evolutionAfterRef' >= evolutionAfterRef
       /\ (Live(loops[l]) /\ PollSucceeds(l)) =>
             evolutionAfterRef' = ReturnedCursor(l)
       /\ \A idx \in 1..MaxAdmit :
             (Live(loops[l]) /\ Invokes(l, idx)) =>
                /\ runLog'[Len(runLog')].seq = loops'[l].batch[idx].seq
                /\ \A k \in 1..(idx - 1) :
                      loops'[l].batch[k].seq < loops'[l].batch[idx].seq
                /\ IF idx = 1 THEN loops[l].pc = "fetching"
                   ELSE /\ loops[l].pc \in {"sending", "running"}
                        /\ loops[l].idx = idx - 1
                        /\ loops[l].batch = loops'[l].batch]_vars

\* the warnings in the conversation log
Warnings == SelectSeq(messages, LAMBDA m : m = Warning)

\* C17: a rejected fetch never stops the poller loop: the loop, unless its
\* effect was cleaned up, sets the timer for the next poll, and however many
\* fetches of one loop are rejected the warning is appended at most once
\* for that loop.
C17_FailedPollRetries ==
  /\ [](Len(Warnings) <= Cardinality({l \in LoopIds : loops[l].warned}))
  /\ [][\A l \in LoopIds :
          /\ loops[l].warned => loops'[l].warned
          /\ (PollFail(l) /\ ~loops[l].cancelled) =>
                /\ loops'[l].pc = "timer"
                /\ ~loops'[l].cancelled]_vars

\* a loop whose fetch was rejected twice is fetching again, one warning in
\* the log
C17_Witness ==
  \E l \in LoopIds :
    /\ loops[l].fails = 2
    /\ loops[l].pc = "fetching"
    /\ ~loops[l].cancelled
    /\ Len(Warnings) = 1

\* the messages of the lead in the conversation log, one per run
UserMessages == SelectSeq(messages, LAMBDA m : m.role = "user")

\* C27: a reply is sent only for events the poller hands over: a message
\* typed into the test input starts no send; a send is started only after
\* the run has issued its session update and its log entries; a send that
\* fails changes neither the sessions nor the records and only appends an
\* error event to the log.
C27_SendAfterUpdate ==
  /\ [](/\ Len(UserMessages) = Len(runLog)
        /\ \A l \in LoopIds :
              loops[l].pc = "sending" =>
                \E i \in DOMAIN runLog :
                  /\ runLog[i].source = "evolution"
                  /\ runLog[i].seq = loops[l].batch[loops[l].idx].seq)
  /\ [][/\ (/\ Len(runLog') > Len(runLog)
             /\ runLog'[Len(runLog')].source = "test") => loops' = loops
        /\ Len(messages') >= Len(messages)
        /\ SubSeq(messages', 1, Len(messages)) = messages
        /\ \A l \in LoopIds :
              (loops[l].pc = "sending" /\ loops'[l] # loops[l] /\ runLog' = runLog) =>
                 /\ sessions' = sessions
                 /\ storedLeads' = storedLeads
                 /\ storedTasks' = storedTasks
                 /\ storedDeals' = storedDeals
                 /\ messages' \in {messages, Append(messages, SendFailure)}]_vars

\* the send of the reply to a polled event failed: the error event is the
\* last entry of the log and the session still holds what the run wrote
C27_Witness ==
  /\ runLog # <<>>
  /\ runLog[Len(runLog)].source = "evolution"
  /\ messages # <<>>
  /\ messages[Len(messages)] = SendFailure
  /\ sessions["whatsapp"].draft = runLog[Len(runLog)].draft
  /\ sessions["whatsapp"].draft # EmptyDraft
  /\ \E l \in LoopIds : loops[l].pc = "timer"

\* the event with sequence number seq was handed to runAgentWorkflow
Handed(seq) ==
  \E i \in DOMAIN runLog : runLog[i].source = "evolution" /\ runLog[i].seq = seq

\* C29: with no more than 500 admissions between two polls no admitted
\* event is skipped: the cursor never passes an event that was not handed
\* to runAgentWorkflow, and while the loop keeps running every admitted
\* event is handed over in the end.
C29_NoEventSkipped ==
  /\ [](\A seq \in 1..evolutionAfterRef : Handed(seq))
  /\ [](evolutionAfterRef <= eventSeq)
  /\ \A seq \in 1..MaxAdmit : (eventSeq >= seq) ~> Handed(seq)

\* two events were admitted and handed over by two polls: the second poll
\* asked for the events after 1
C29_Witness ==
  /\ eventSeq = 2
  /\ evolutionAfterRef = 2
  /\ Handed(1)
  /\ Handed(2)
  /\ \E l \in LoopIds : loops[l].after = 1 /\ loops[l].pc = "timer"

\* C24: once the credentials are cleared or changed, the loop that was
\* running starts no poll request, calls runAgentWorkflow for no further
\* event, also not for the rest of a batch it was working through, and sets
\* no timer.
C24_CancelledLoopStops ==
  [][\A l \in LoopIds :
       loops[l].cancelled =>
         /\ loops'[l].pc = "fetching" => loops[l].pc = "fetching"
         /\ loops'[l].pc = "timer" => loops[l].pc = "timer"
         /\ \A idx \in 1..MaxAdmit : ~Invokes(l, idx)]_vars

\* ------------------------------------------------------------------------
\* Properties of the gateway client
\* ------------------------------------------------------------------------
\* position of the first candidate whose answer is not 404 (0 when all are)
FirstNon404(answers) ==
  IF \A i \in 1..Len(answers) : answers[i] = 404 THEN 0
  ELSE CHOOSE i \in 1..Len(answers) :
         answers[i] # 404 /\ \A j \in 1..(i - 1) : answers[j] = 404

\* C10: with a non-empty base URL and every candidate answering with an
\* HTTP status, dispatch returns the answer of the first candidate, in list
\* order, that is not a 404 (2xx: success with that candidate's path; other:
\* failure); when all answer 404 the result is the last candidate's failure.
C10_FirstNon404Wins ==
  (/\ gw.pc = "done"
   /\ Trim(gw.baseUrl) # <<>>
   /\ gw.paths # <<>>
   /\ \A i \in 1..Len(gw.paths) : gw.answers[i] \in Statuses) =>
     LET k == FirstNon404(gw.answers)
         n == Len(gw.paths)
     IN  IF k = 0
         THEN gw.result = [ok |-> FALSE, status |-> 404, path |-> gw.paths[n]]
         ELSE /\ gw.result.status = gw.answers[k]
              /\ gw.result.path = gw.paths[k]
              /\ gw.result.ok = (gw.answers[k] \in 200..299)

\* [A, B, C] with A and B answering 404 and C answering 200: ok, path = C
C10_Witness ==
  /\ gw.pc = "done"
  /\ gw.paths = <<CandidateAt(1), CandidateAt(2), CandidateAt(3)>>
  /\ gw.answers = <<404, 404, 200>>
  /\ gw.result = [ok |-> TRUE, status |-> 200, path |-> CandidateAt(3)]

\* C11: within one dispatch call the candidates are requested one at a time
\* in list order, a candidate is requested only after every earlier
\* candidate answered 404, and none is requested after a candidate answered
\* with a 2xx or with another status than 404.
C11_SequentialFallback ==
  /\ Len(gw.requested) <= Len(gw.paths)
  /\ gw.pc = "fetching" => Len(gw.requested) = gw.i
  /\ \A k \in 1..Len(gw.requested) :
        /\ gw.requested[k].url = CandidateUrl(gw.normalized, gw.paths[k])
        /\ \A j \in 1..(k - 1) : gw.answers[j] = 404

\* C12: a candidate request that ends in a transport error ends the call:
\* that failure (status 0, that candidate's path) is the result and no later
\* candidate is requested.
C12_TransportErrorFinal ==
  \A k \in 1..Len(gw.requested) :
    (gw.answers[k] = NetworkError /\ (gw.pc = "done" \/ gw.i > k)) =>
       /\ Len(gw.requested) = k
       /\ gw.pc = "done"
       /\ gw.result = GwFailure(0, gw.paths[k])

\* C26: a dispatch call with a base URL that is empty after trimming or
\* without credentials returns a failure at once and sends no request,
\* whatever the candidates.
C26_FailsFast ==
  (gw.pc # "idle" /\ (Trim(gw.baseUrl) = <<>> \/ Trim(gw.apiKey) = <<>>)) =>
     /\ gw.pc = "done"
     /\ ~gw.result.ok
     /\ gw.requested = <<>>

\* C25: no dispatch call blocks for ever: every call that has issued a
\* request ends with a success or failure result, also when the remote end
\* never answers.
C25_EveryCallEnds == (gw.pc = "fetching") ~> (gw.pc = "done")

\* ------------------------------------------------------------------------
\* Properties of the event log
\* ------------------------------------------------------------------------
SeqsOf(log) == [i \in 1..Len(log) |-> log[i].seq]

StrictlyIncreasing(s) == \A i \in 1..(Len(s) - 1) : s[i] < s[i + 1]

\* C4: the sequence numbers assigned by admit are 1, 2, 3, ... without gap or
\* repeat, also with webhook handlers interleaved at their await; the
\* next-sequence counter is the number of admissions (so it never decreases
\* and eviction does not reset it); the log is in strictly increasing seq
\* order.
C4_SeqGaplessIncreasing ==
  /\ assigned = [i \in 1..Len(assigned) |-> i]
  /\ eventSeq = Len(assigned)
  /\ StrictlyIncreasing(SeqsOf(events))
  /\ events # <<>> => events[Len(events)].seq = eventSeq

C4_Witness ==
  /\ Len(assigned) > MAX_EVENTS + 1
  /\ \A h \in HandlerIds : handlers[h].pc = "reading" /\ ~handlers[h].payload.fromMe

\* C5: the log never holds more than 500 events; after n admissions it holds
\* the min(n, 500) most recently admitted ones; after 501 admissions
\* readAfter(0) returns seq 2..501 and nextCursor 501.
C5_BoundedMostRecent ==
  LET n == Len(assigned)
      held == Min(n, 500)
  IN  /\ Len(events) <= 500
      /\ SeqsOf(events) = [i \in 1..held |-> n - held + i]
      /\ (lastRead.cursor = 0 /\ lastRead.admits = 501) =>
           /\ Len(lastRead.events) = 500
           /\ SeqsOf(lastRead.events) = [i \in 1..500 |-> i + 1]
           /\ lastRead.nextAfter = 501

C5_Witness == lastRead.cursor = 0 /\ lastRead.admits = 501 /\ Len(events) = 500

\* C6: readAfter(cursor) returns exactly the held events with seq > cursor,
\* in increasing seq order, with nextCursor the highest seq assigned so far
\* (0 when none); the log and the counter are as they were, so a second call
\* with the same cursor and no admit in between returns the same.
C6_ReadAfterExact ==
  lastRead # NoRead =>
    LET heldThen == {events[i] : i \in 1..Min(Len(events), lastRead.admits)}
        returned == {lastRead.events[i] : i \in 1..Len(lastRead.events)}
    IN  /\ returned = {e \in heldThen : e.seq > lastRead.cursor}
        /\ StrictlyIncreasing(SeqsOf(lastRead.events))
        /\ lastRead.nextAfter = lastRead.admits
        /\ lastRead.admits = Len(assigned) =>
             /\ readAfter(events, eventSeq, lastRead.cursor).events = lastRead.events
             /\ readAfter(events, eventSeq, lastRead.cursor).nextAfter = lastRead.nextAfter
             /\ Len(events) = lastRead.admits

C6_Witness ==
  /\ lastRead.cursor = 1
  /\ lastRead.admits = 3
  /\ Len(lastRead.events) = 2
  /\ Len(assigned) = 3

\* a payload the webhook has to ignore: an echo of a message sent by the
\* account itself, a text of blanks only, a sender without a digit
IgnoredPayload(payload) ==
  \/ payload.fromMe
  \/ \A i \in DOMAIN payload.text : payload.text[i] = " "
  \/ \A i \in DOMAIN payload.remoteJid : payload.remoteJid[i] \notin DigitTokens

\* C18: a webhook payload with fromMe true, or with an empty text or sender
\* after normalization, is answered as ignored and leaves the log and the
\* sequence counter as they were, so the log never holds an event made from
\* such a payload.
C18_IgnoredLeavesLog ==
  /\ [][\A h \in HandlerIds :
          (/\ handlers[h].pc = "reading"
           /\ handlers'[h].pc = "idle"
           /\ IgnoredPayload(handlers[h].payload)) =>
             /\ lastReply'.status = 200
             /\ lastReply'.ignored
             /\ lastReply'.payload = handlers[h].payload
             /\ events' = events
             /\ eventSeq' = eventSeq
             /\ assigned' = assigned]_vars
  /\ [](\A i \in DOMAIN events : events[i].text # <<>> /\ events[i].sender # <<>>)

\* with an event in the log, a payload of blanks was answered as ignored
C18_Witness ==
  /\ events # <<>>
  /\ lastReply.ignored
  /\ ~lastReply.payload.fromMe
  /\ lastReply.payload.text = <<" ">>
  /\ eventSeq = Len(events)

\* the request of the last token check carries the secret, in the query
\* parameter or in the header (the server trims both before it compares)
CarriesSecret(call) ==
  Trim(call.query) = webhookToken \/ Trim(call.header) = webhookToken

\* C19: with a secret configured, a request whose token matches neither in
\* the query parameter nor in the header is answered 401 and leaves the log
\* and the counter as they were; a request carrying the secret in either
\* place passes the check, and so does every request when no secret is
\* configured.
C19_TokenGate ==
  [][(calc'.op = "token" /\ lastRead' = lastRead) =>
       IF webhookToken # <<>> /\ ~CarriesSecret(calc')
       THEN /\ ~calc'.result
            /\ lastReply'.status = 401
            /\ events' = events
            /\ eventSeq' = eventSeq
            /\ assigned' = assigned
       ELSE /\ calc'.result
            /\ lastReply'.status = 200]_vars

\* with an event in the log, a request with a wrong token was refused
C19_Witness ==
  /\ calc.op = "token"
  /\ webhookToken = Secret
  /\ calc.query = <<"x">>
  /\ calc.header = <<>>
  /\ lastReply.status = 401
  /\ ~IgnoredPayload(lastReply.payload)
  /\ events # <<>>

====
